---- MODULE Spec2Model ----
(***************************************************************************)
(* Model of batch_job_submitter.jsonl_processor.JsonlProcessor: validate,  *)
(* needs_splitting and split, run on one input file that does not change   *)
(* while the processor is used.  Files are sequences of one-byte           *)
(* characters; "\n" ends a line, as in Python's text-mode file iteration.  *)
(*                                                                         *)
(* Further components, each with a specification of its own:               *)
(*   SpecWait    cli.wait_for_jobs and the run statuses of the service     *)
(*   SpecList    JobSubmitter.list_tasks against a paging service          *)
(*   SpecSubmit  JobSubmitter.submit_job and its creation requests         *)
(*   SpecCli     the handlers of the submit, status and list commands      *)
(*   SpecSign    BceApiSignatureTool.request                               *)
(* While one component runs, the variables of the others keep their idle   *)
(* values.                                                                 *)
(***************************************************************************)
EXTENDS Integers, Sequences, FiniteSets, TLC

\* ------------------------------------------------------------------ bounds
MaxFileLines == 3      \* lines of the input file
MaxMaxLines  == 3      \* largest MAX_LINES tried
MaxMaxBytes  == 5      \* largest MAX_SIZE_BYTES tried
MaxTasks     == 2      \* tasks known to the service
MaxLimit     == 3      \* largest limit passed to list_tasks
MaxOffset    == 2      \* largest offset passed to list_tasks
MaxTotal     == 4      \* most tasks a paged service holds
MaxPageSize  == 2      \* largest page of a paged service
MaxChunks    == 2      \* most chunk files handle_submit works through
MaxRequests  == 2      \* requests made through one signing client

\* -------------------------------------------------------------- characters
SP == " "
NL == "\n"

\* The texts an input line is drawn from: empty, valid JSON (bare, with
\* leading whitespace, a three-byte array) and malformed JSON.
LineTexts ==
    { <<>>, <<"1">>, <<SP, "1">>, <<"[">>, <<"[", "1", "]">> }

\* ---------------------------------------------------------- pure functions
SetMin(S) == CHOOSE x \in S : \A y \in S : x <= y
SetMax(S) == CHOOSE x \in S : \A y \in S : x >= y
IntMax(a, b) == IF a >= b THEN a ELSE b

\* str.strip(): whitespace is removed at both ends
IsSpace(c) == c \in {SP, NL}

Strip(s) ==
    LET keep == { i \in 1..Len(s) : ~IsSpace(s[i]) }
    IN  IF keep = {} THEN <<>> ELSE SubSeq(s, SetMin(keep), SetMax(keep))

\* one line of a text-mode file: up to and including the first "\n"
LineEnd(s) ==
    LET nls == { i \in 1..Len(s) : s[i] = NL }
    IN  IF nls = {} THEN Len(s) ELSE SetMin(nls)

\* `for line in f`: the lines of a file, each with its line terminator
RECURSIVE ReadLines(_)
ReadLines(s) ==
    IF s = <<>> THEN <<>>
    ELSE <<SubSeq(s, 1, LineEnd(s))>> \o ReadLines(SubSeq(s, LineEnd(s) + 1, Len(s)))

\* "\n".join(chunk)
RECURSIVE JoinNL(_)
JoinNL(chunk) ==
    IF chunk = <<>> THEN <<>>
    ELSE IF Len(chunk) = 1 THEN chunk[1]
    ELSE chunk[1] \o <<NL>> \o JoinNL(Tail(chunk))

\* json.loads over the alphabet of LineTexts: a value is a number (digits)
\* or an array "[" ws [value ws] "]"; whitespace may surround the value and
\* anything left over is "Extra data" (a JSONDecodeError).
RECURSIVE SkipWs(_, _)
SkipWs(s, i) == IF i <= Len(s) /\ s[i] \in {SP, NL} THEN SkipWs(s, i + 1) ELSE i

RECURSIVE SkipDigits(_, _)
SkipDigits(s, i) == IF i <= Len(s) /\ s[i] = "1" THEN SkipDigits(s, i + 1) ELSE i

\* index after the value that starts at i, 0 when there is none
RECURSIVE ParseValue(_, _)
ParseValue(s, i) ==
    IF i > Len(s) THEN 0
    ELSE IF s[i] = "1" THEN SkipDigits(s, i + 1)
    ELSE IF s[i] = "[" THEN
        LET j == SkipWs(s, i + 1)
        IN  IF j <= Len(s) /\ s[j] = "]" THEN j + 1
            ELSE LET k == ParseValue(s, j)
                     m == SkipWs(s, k)
                 IN  IF k # 0 /\ m <= Len(s) /\ s[m] = "]" THEN m + 1 ELSE 0
    ELSE 0

JsonLoads(s) ==
    LET k == ParseValue(s, SkipWs(s, 1))
    IN  k # 0 /\ SkipWs(s, k) = Len(s) + 1

\* needs_splitting: the reason strings
\* f"{x / 1024 / 1024:.2f}": megabytes in hundredths, rounded half to even
BytesPerMB == 1048576

MB2f(bytes) ==
    LET q == (bytes * 100) \div BytesPerMB
        r == (bytes * 100) % BytesPerMB
    IN  IF 2 * r > BytesPerMB \/ (2 * r = BytesPerMB /\ q % 2 = 1) THEN q + 1 ELSE q

\* a reason string: its wording and the two numbers formatted into it
SizeReason(file_size, limit) ==
    [ text |-> "File size (MB) exceeds limit (MB)", value |-> MB2f(file_size),
      limit |-> MB2f(limit) ]
LineReason(line_count, limit) ==
    [ text |-> "Line count exceeds limit", value |-> line_count, limit |-> limit ]
NoReason == [ text |-> "", value |-> 0, limit |-> 0 ]

\* the input files: up to MaxFileLines lines, the last one with or without
\* its line terminator
RECURSIVE SeqsUpTo(_, _)
SeqsUpTo(S, n) ==
    IF n = 0 THEN { <<>> }
    ELSE LET shorter == SeqsUpTo(S, n - 1)
         IN  shorter \cup { Append(q, x) : q \in { r \in shorter : Len(r) = n - 1 }, x \in S }

RECURSIVE Terminated(_)
Terminated(ls) == IF ls = <<>> THEN <<>> ELSE Head(ls) \o <<NL>> \o Terminated(Tail(ls))

InputFiles ==
    { Terminated(ls) : ls \in SeqsUpTo(LineTexts, MaxFileLines) }
      \cup { JoinNL(ls) : ls \in SeqsUpTo(LineTexts, MaxFileLines) }

\* ------------------------------------------------------------------- state
VARIABLES
    input,            \* bytes of the file at input_file
    MAX_LINES,        \* class attribute
    MAX_SIZE_BYTES,   \* class attribute
    pc,               \* "ready", "validate" or "split"
    line_number,      \* validate: lines read so far
    valid_count,
    invalid_count,
    returned,         \* the methods that have returned at least once
    validateResult,   \* last value returned by validate
    needsResult,      \* last value returned by needs_splitting
    chunk_count,
    lines_per_chunk,
    lines_read,       \* split: lines read so far from f
    chunk_index,
    line_index,
    current_chunk,
    output_files,
    fs,               \* chunk files on disk: path -> bytes
    splitResult       \* last list returned by split

\* wait_for_jobs and the service it polls
VARIABLES
    task_ids,         \* argument of wait_for_jobs
    pending_tasks,
    completed_tasks,
    sweep,            \* tasks of list(pending_tasks) the for loop has yet to poll
    runStatus,        \* service side: task -> run status
    seen,             \* task -> status of its last answered poll, "" if none
    wpc,              \* "idle", "sweep", "sleep", "done" or "stopped"
    stop_message      \* what the KeyboardInterrupt handler printed

\* list_tasks and the service it pages through
VARIABLES
    limit,            \* argument of list_tasks
    offset,           \* argument of list_tasks
    backend,          \* how the service answers page requests
    all_tasks,
    marker,           \* 0 stands for the empty marker ""
    tasks_collected,
    requests,         \* the marker of every page request sent, 0 for none
    pages,            \* the answer to every page request
    lpc,              \* "idle", "request", "return" or "done"
    listResult        \* the list returned by list_tasks

\* submit_job and the creation service it calls
VARIABLES
    bos_uri,          \* argument of submit_job
    HAS_QIANFAN,      \* module flag: the qianfan package was imported
    params_ok,        \* the configured job parameters parse as numbers
    bucket,
    key,
    sent,             \* the creation requests issued, in order
    answers,          \* the outcome of each creation request
    spc,              \* "idle", "first", "retry" or "done"
    alt_index,        \* position in alternative_formats during the retry
    submitResult,     \* the pair returned by submit_job
    submitRaised      \* the exception submit_job raised, "" if none

\* the command handlers of the CLI
VARIABLES
    command,          \* "submit", "status" or "list"
    precheck,         \* submit: "ok", "missing" (no such file) or "declined"
    split_path,       \* submit: needs_split and not args.no_split
    n_chunks,         \* submit: len(split_files)
    wait,             \* submit: args.wait
    chunk_i,          \* submit: chunks the for loop has processed
    cli_task_ids,     \* submit: task_ids of handle_submit
    calls,            \* the client calls made by the handler, with outcome
    stderr,           \* the handler's messages on stderr
    stdout,           \* the handler's closing message on stdout
    exit_status,      \* the value returned to sys.exit, -1 while running
    cpc               \* "idle", "chunks", "whole", "waiting", "status", "list", "done"

\* the signing client, BceApiSignatureTool.request
VARIABLES
    method,           \* argument of request
    query,            \* argument of request
    extra_headers,    \* argument of request: header name -> value
    headers,          \* the dict built by request
    canonical_request,
    authorization,    \* the Authorization string, by its parts
    posted,           \* the headers of the request handed to requests.post
    apc,              \* "idle", "headers", "signed" or "sent"
    signatures,       \* every call of _generate_signature: arguments and result
    sign_stdout       \* what the signing client has printed on stdout

processorVars ==
    << input, MAX_LINES, MAX_SIZE_BYTES, pc, line_number, valid_count,
       invalid_count, returned, validateResult, needsResult, chunk_count,
       lines_per_chunk, lines_read, chunk_index, line_index, current_chunk,
       output_files, fs, splitResult >>

waitVars ==
    << task_ids, pending_tasks, completed_tasks, sweep, runStatus, seen, wpc,
       stop_message >>

\* the variables of everything but JsonlProcessor
listVars ==
    << limit, offset, backend, all_tasks, marker, tasks_collected, requests,
       pages, lpc, listResult >>

submitVars ==
    << bos_uri, HAS_QIANFAN, params_ok, bucket, key, sent, answers, spc,
       alt_index, submitResult, submitRaised >>

cliVars ==
    << command, precheck, split_path, n_chunks, wait, chunk_i, cli_task_ids,
       calls, stderr, stdout, exit_status, cpc >>

signVars ==
    << method, query, extra_headers, headers, canonical_request, authorization,
       posted, apc, signatures, sign_stdout >>

clientVars == << waitVars, listVars, submitVars, cliVars, signVars >>

\* what each client leaves alone
notWaitVars == << processorVars, listVars, submitVars, cliVars, signVars >>
notListVars == << processorVars, waitVars, submitVars, cliVars, signVars >>
notSubmitVars == << processorVars, waitVars, listVars, cliVars, signVars >>
notCliVars == << processorVars, waitVars, listVars, submitVars, signVars >>
notSignVars == << processorVars, waitVars, listVars, submitVars, cliVars >>

vars == << processorVars, clientVars >>

fileVars     == << input, MAX_LINES, MAX_SIZE_BYTES >>
validateVars == << line_number, valid_count, invalid_count >>
splitVars    ==
    << chunk_count, lines_per_chunk, lines_read, chunk_index, line_index,
       current_chunk, output_files, fs >>

\* ------------------------------------------------------------------- Init
\* the run statuses of the service, and the ones among them that are final
RunStatuses == { "Done", "Running", "Failed", "Cancelled" }
FinalRunStatuses == { "Done", "Failed", "Cancelled" }

\* the statuses at which wait_for_jobs stops polling a task
StopStatuses == { "SUCCESS", "FAILED", "CANCELED" }

\* every status string an answered poll may carry
ReportedStatuses == RunStatuses \cup StopStatuses

Tasks == 1..MaxTasks

NoMessage == [ text |-> "", tasks |-> {} ]

\* no wait_for_jobs call in progress, no task known to the service
WaitIdle ==
    /\ task_ids = {}
    /\ pending_tasks = {}
    /\ completed_tasks = {}
    /\ sweep = {}
    /\ runStatus = [ t \in Tasks |-> "Running" ]
    /\ seen = [ t \in Tasks |-> "" ]
    /\ wpc = "idle"
    /\ stop_message = NoMessage

\* no list_tasks call in progress
ListIdle ==
    /\ limit = 0
    /\ offset = 0
    /\ backend = [ kind |-> "any", total |-> 0, page |-> 1 ]
    /\ all_tasks = <<>>
    /\ marker = 0
    /\ tasks_collected = 0
    /\ requests = <<>>
    /\ pages = <<>>
    /\ lpc = "idle"
    /\ listResult = <<>>

\* no submit_job call in progress
SubmitIdle ==
    /\ bos_uri = <<>>
    /\ HAS_QIANFAN = TRUE
    /\ params_ok = TRUE
    /\ bucket = <<>>
    /\ key = <<>>
    /\ sent = <<>>
    /\ answers = <<>>
    /\ spc = "idle"
    /\ alt_index = 0
    /\ submitResult = [ ok |-> FALSE, task_id |-> 0 ]
    /\ submitRaised = ""

\* no command running
CliStart ==
    /\ chunk_i = 0
    /\ cli_task_ids = <<>>
    /\ calls = <<>>
    /\ stderr = <<>>
    /\ stdout = ""
    /\ exit_status = -1
    /\ cpc = "idle"

CliIdle ==
    /\ command = "status"
    /\ precheck = "ok"
    /\ split_path = FALSE
    /\ n_chunks = 0
    /\ wait = FALSE
    /\ CliStart

\* the empty dict
NoHeaders == [ k \in {} |-> "" ]

NoCanonicalRequest ==
    [ method |-> "", uri |-> "", query |-> "", canonical_headers |-> NoHeaders ]

NoAuthorization ==
    [ version |-> "", ak |-> "", x_bce_date |-> "", expiration_seconds |-> 0,
      signed_headers |-> <<>>, digest |-> <<>> ]

\* no request in progress
SignStart ==
    /\ headers = NoHeaders
    /\ canonical_request = NoCanonicalRequest
    /\ authorization = NoAuthorization
    /\ posted = NoHeaders
    /\ apc = "idle"

SignIdle ==
    /\ method = "POST"
    /\ query = ""
    /\ extra_headers = NoHeaders
    /\ signatures = <<>>
    /\ sign_stdout = <<>>
    /\ SignStart

ClientIdle == WaitIdle /\ ListIdle /\ SubmitIdle /\ CliIdle /\ SignIdle

\* a JsonlProcessor on which no method has been called
ProcessorReady ==
    /\ pc = "ready"
    /\ line_number = 0
    /\ valid_count = 0
    /\ invalid_count = 0
    /\ returned = {}
    /\ validateResult = << 0, 0 >>
    /\ needsResult = << FALSE, NoReason >>
    /\ chunk_count = 0
    /\ lines_per_chunk = 0
    /\ lines_read = 0
    /\ chunk_index = 0
    /\ line_index = 0
    /\ current_chunk = <<>>
    /\ output_files = <<>>
    /\ fs = <<>>
    /\ splitResult = <<>>

Init ==
    /\ input \in InputFiles
    /\ MAX_LINES \in 1..MaxMaxLines
    /\ MAX_SIZE_BYTES \in 1..MaxMaxBytes
    /\ ProcessorReady
    /\ ClientIdle

\* the state of JsonlProcessor while the clients run: the empty file
ProcessorIdle ==
    /\ input = <<>>
    /\ MAX_LINES = 1
    /\ MAX_SIZE_BYTES = 1
    /\ ProcessorReady

\* --------------------------------------------------------------- validate
ValidateStart ==
    /\ pc = "ready"
    /\ pc' = "validate"
    /\ line_number' = 0
    /\ valid_count' = 0
    /\ invalid_count' = 0
    /\ UNCHANGED << clientVars, fileVars, returned, validateResult, needsResult, splitVars, splitResult >>

\* a check that forgets json.loads: any non-empty line counts as valid
LineIsNonEmpty(line) == Strip(line) # <<>>

\* the count a line adds to: empty after strip, or not JSON, is invalid
LineIsValid(line) == Strip(line) # <<>> /\ JsonLoads(Strip(line))

ValidateLine ==
    /\ pc = "validate"
    /\ line_number < Len(ReadLines(input))
    /\ LET line == ReadLines(input)[line_number + 1]
       IN  /\ line_number' = line_number + 1
           /\ IF LineIsValid(line)
              THEN /\ valid_count' = valid_count + 1
                   /\ UNCHANGED invalid_count
              ELSE /\ invalid_count' = invalid_count + 1
                   /\ UNCHANGED valid_count
    /\ UNCHANGED << clientVars, fileVars, pc, returned, validateResult, needsResult, splitVars,
                    splitResult >>

ValidateReturn ==
    /\ pc = "validate"
    /\ line_number = Len(ReadLines(input))
    /\ validateResult' = << valid_count, invalid_count >>
    /\ returned' = returned \cup {"validate"}
    /\ pc' = "ready"
    /\ UNCHANGED << clientVars, fileVars, validateVars, needsResult, splitVars, splitResult >>

\* -------------------------------------------------------- needs_splitting
\* a check that looks at the file size only
NeedsSplittingSizeOnly(file_size, line_count, maxLines, maxBytes) ==
    IF file_size > maxBytes THEN << TRUE, SizeReason(file_size, maxBytes) >>
    ELSE << FALSE, NoReason >>

\* a check that is off by one at the limits: >= instead of >
NeedsSplittingAtLimit(file_size, line_count, maxLines, maxBytes) ==
    IF file_size >= maxBytes THEN << TRUE, SizeReason(file_size, maxBytes) >>
    ELSE IF line_count >= maxLines THEN << TRUE, LineReason(line_count, maxLines) >>
    ELSE << FALSE, NoReason >>

NeedsSplittingValue(file_size, line_count, maxLines, maxBytes) ==
    IF file_size > maxBytes THEN << TRUE, SizeReason(file_size, maxBytes) >>
    ELSE IF line_count > maxLines THEN << TRUE, LineReason(line_count, maxLines) >>
    ELSE << FALSE, NoReason >>

NeedsSplitting ==
    /\ pc = "ready"
    /\ needsResult' =
          NeedsSplittingValue(Len(input), Len(ReadLines(input)), MAX_LINES, MAX_SIZE_BYTES)
    /\ returned' = returned \cup {"needs_splitting"}
    /\ UNCHANGED << clientVars, fileVars, pc, validateVars, validateResult, splitVars, splitResult >>

\* ------------------------------------------------------------------ split
SizeBasedChunks(file_size, maxBytes) == (file_size \div maxBytes) + 1
LineBasedChunks(line_count, maxLines) == (line_count \div maxLines) + 1

ChunkCount(file_size, line_count, maxLines, maxBytes) ==
    IntMax(SizeBasedChunks(file_size, maxBytes), LineBasedChunks(line_count, maxLines))

\* lines per chunk rounded down, without the + 1
LinesPerChunkFloor(line_count, count) == line_count \div count

LinesPerChunk(line_count, count) == line_count \div count + 1

\* a chunk path that leaves chunk_index out: every chunk lands on one file
ChunkPathNoIndex(index) == 1

\* path of the chunk written at chunk_index: {base_name}_{chunk_index + 1}.jsonl
ChunkPath(index) == index + 1

\* open(output_file, 'w').write(...): the file is created or replaced
WriteFile(files, path, bytes) ==
    [ p \in DOMAIN files \cup {path} |-> IF p = path THEN bytes ELSE files[p] ]

\* a flush test that is off by one: > instead of >=
ChunkIsFullStrict(index, perChunk) == index > perChunk

ChunkIsFull(index, perChunk) == index >= perChunk

\* a split that forgets the lines left over after the loop
RemainderNeverPending(chunk) == FALSE

\* `if current_chunk:` after the loop
RemainderPending(chunk) == chunk # <<>>

SplitStart ==
    /\ pc = "ready"
    /\ pc' = "split"
    /\ chunk_count' =
          ChunkCount(Len(input), Len(ReadLines(input)), MAX_LINES, MAX_SIZE_BYTES)
    /\ lines_per_chunk' = LinesPerChunk(Len(ReadLines(input)), chunk_count')
    /\ lines_read' = 0
    /\ chunk_index' = 0
    /\ line_index' = 0
    /\ current_chunk' = <<>>
    /\ output_files' = <<>>
    /\ UNCHANGED << clientVars, fileVars, validateVars, returned, validateResult, needsResult, fs,
                    splitResult >>

SplitLine ==
    /\ pc = "split"
    /\ lines_read < Len(ReadLines(input))
    /\ lines_read' = lines_read + 1
    /\ LET line == Strip(ReadLines(input)[lines_read + 1])
       IN  IF line = <<>>
           THEN UNCHANGED << chunk_index, line_index, current_chunk, output_files, fs >>
           ELSE IF ChunkIsFull(line_index + 1, lines_per_chunk)
                THEN /\ fs' = WriteFile(fs, ChunkPath(chunk_index),
                                        JoinNL(Append(current_chunk, line)))
                     /\ output_files' = Append(output_files, ChunkPath(chunk_index))
                     /\ chunk_index' = chunk_index + 1
                     /\ line_index' = 0
                     /\ current_chunk' = <<>>
                ELSE /\ current_chunk' = Append(current_chunk, line)
                     /\ line_index' = line_index + 1
                     /\ UNCHANGED << chunk_index, output_files, fs >>
    /\ UNCHANGED << clientVars, fileVars, pc, validateVars, returned, validateResult, needsResult,
                    chunk_count, lines_per_chunk, splitResult >>

SplitReturn ==
    /\ pc = "split"
    /\ lines_read = Len(ReadLines(input))
    /\ IF RemainderPending(current_chunk)
       THEN /\ fs' = WriteFile(fs, ChunkPath(chunk_index), JoinNL(current_chunk))
            /\ output_files' = Append(output_files, ChunkPath(chunk_index))
       ELSE UNCHANGED << fs, output_files >>
    /\ splitResult' = output_files'
    /\ returned' = returned \cup {"split"}
    /\ pc' = "ready"
    /\ UNCHANGED << clientVars, fileVars, validateVars, validateResult, needsResult, chunk_count,
                    lines_per_chunk, lines_read, chunk_index, line_index, current_chunk >>

\* ---------------------------------------------------------- specification
\* validate on its own: it reads the file and touches nothing else
NextValidate ==
    \/ ValidateStart
    \/ ValidateLine
    \/ ValidateReturn

SpecValidate == Init /\ [][NextValidate]_vars

\* needs_splitting and split, called in any order and any number of times
NextSplit ==
    \/ NeedsSplitting
    \/ SplitStart
    \/ SplitLine
    \/ SplitReturn

SpecSplit == Init /\ [][NextSplit]_vars

\* ------------------------------------------------------------- list_tasks
IntMin(a, b) == IF a < b THEN a ELSE b

\* Python's s[:k] and s[k:] for k >= 0, and s[:k] for k < 0
SliceTo(s, k) ==
    IF k >= 0 THEN SubSeq(s, 1, IntMin(k, Len(s)))
    ELSE SubSeq(s, 1, IntMax(Len(s) + k, 0))
SliceFrom(s, k) == SubSeq(s, IntMin(k, Len(s)) + 1, Len(s))

\* a service that holds the tasks 1..total in listing order and answers each
\* request with the page of at most page tasks that follow the marker
PagedResponse(total, page, after) ==
    [ task_list    |-> [ i \in 1..(IntMin(after + page, total) - after) |-> after + i ],
      is_truncated |-> after + page < total,
      error        |-> "" ]

\* the task lists a service of any behaviour answers with
AnyPages == { <<>>, <<1>>, <<2, 3>>, <<3, 1>> }

\* the exceptions the inner try of list_tasks catches, and one it does not
BreakErrors == { "RequestException", "JSONDecodeError" }
OtherErrors == { "AttributeError" }

Responses(b, after) ==
    IF b.kind = "paged" THEN { PagedResponse(b.total, b.page, after) }
    ELSE { [ task_list |-> p, is_truncated |-> t, error |-> "" ] :
               p \in AnyPages, t \in BOOLEAN }

Failure(e) == [ task_list |-> <<>>, is_truncated |-> FALSE, error |-> e ]

Backends ==
    { [ kind |-> "paged", total |-> n, page |-> p ] :
          n \in 0..MaxTotal, p \in 1..MaxPageSize }
      \cup { [ kind |-> "any", total |-> 0, page |-> 1 ] }

\* every answer some service gives to some request
AllResponses == UNION { Responses(b, after) : b \in Backends, after \in 0..MaxTotal }

InitList ==
    /\ ProcessorIdle
    /\ WaitIdle
    /\ SubmitIdle
    /\ CliIdle
    /\ SignIdle
    /\ limit \in -1..MaxLimit
    /\ offset \in 0..MaxOffset
    /\ backend \in Backends
    /\ all_tasks = <<>>
    /\ marker = 0
    /\ tasks_collected = 0
    /\ requests = <<>>
    /\ pages = <<>>
    /\ lpc = "idle"
    /\ listResult = <<>>

\* a while condition that lets one request too many through
LoopContinuesAtLimit(collected, lim) == collected <= lim

\* while tasks_collected < limit
LoopContinues(collected, lim) == collected < lim

\* the marker taken from the first task processed instead of the last
NextMarkerFirst(old, taken) == IF taken = <<>> THEN old ELSE taken[1]

\* marker = task.get('taskId') after every task processed
NextMarker(old, taken) == IF taken = <<>> THEN old ELSE taken[Len(taken)]

\* the tasks of a page the for loop processes before the limit is reached
Taken(task_list, room) == SubSeq(task_list, 1, IntMin(Len(task_list), room))

\* a break test that forgets the empty page
StopPagingOnLastPage(is_truncated, task_list) == ~is_truncated

\* if not is_truncated or not task_list: break
StopPaging(is_truncated, task_list) == ~is_truncated \/ task_list = <<>>

ListStart ==
    /\ lpc = "idle"
    /\ all_tasks' = <<>>
    /\ marker' = 0
    /\ tasks_collected' = 0
    /\ lpc' = IF LoopContinues(0, limit) THEN "request" ELSE "return"
    /\ UNCHANGED << notListVars, limit, offset, backend, requests, pages, listResult >>

\* one pass of the while loop whose request is answered
PageAnswered(r) ==
    /\ lpc = "request"
    /\ r \in Responses(backend, marker)
    /\ requests' = Append(requests, marker)
    /\ pages' = Append(pages, r)
    /\ LET taken == Taken(r.task_list, limit - tasks_collected)
       IN  /\ all_tasks' = all_tasks \o taken
           /\ tasks_collected' = tasks_collected + Len(taken)
           /\ marker' = NextMarker(marker, taken)
           /\ lpc' = IF StopPaging(r.is_truncated, r.task_list) THEN "return"
                     ELSE IF LoopContinues(tasks_collected + Len(taken), limit)
                          THEN "request"
                          ELSE "return"
    /\ UNCHANGED << notListVars, limit, offset, backend, listResult >>

\* one pass whose request raises an exception the inner try catches: break
PageFailed(e) ==
    /\ lpc = "request"
    /\ backend.kind = "any"
    /\ requests' = Append(requests, marker)
    /\ pages' = Append(pages, Failure(e))
    /\ lpc' = "return"
    /\ UNCHANGED << notListVars, limit, offset, backend, all_tasks, marker,
                    tasks_collected, listResult >>

\* one pass whose answer raises any other exception: the outer handler
\* returns []
PageCrashed(e) ==
    /\ lpc = "request"
    /\ backend.kind = "any"
    /\ requests' = Append(requests, marker)
    /\ pages' = Append(pages, Failure(e))
    /\ listResult' = <<>>
    /\ lpc' = "done"
    /\ UNCHANGED << notListVars, limit, offset, backend, all_tasks, marker,
                    tasks_collected >>

\* the offset is applied, then the limit
ListValue(tasks, off, lim) ==
    SliceTo(IF off > 0 THEN SliceFrom(tasks, off) ELSE tasks, lim)

ListReturn ==
    /\ lpc = "return"
    /\ listResult' = ListValue(all_tasks, offset, limit)
    /\ lpc' = "done"
    /\ UNCHANGED << notListVars, limit, offset, backend, all_tasks, marker,
                    tasks_collected, requests, pages >>

NextList ==
    \/ ListStart
    \/ \E r \in AllResponses : PageAnswered(r)
    \/ \E e \in BreakErrors : PageFailed(e)
    \/ \E e \in OtherErrors : PageCrashed(e)
    \/ ListReturn

SpecList == InitList /\ [][NextList]_vars

\* ------------------------------------------------------------- submit_job
\* Storage URIs are sequences of tokens: a scheme with its colon, "/", ".",
\* and names.
SLASH == "/"
DOT == "."
BOS1 == << "bos:", SLASH >>              \* "bos:/"
BOS2 == << "bos:", SLASH, SLASH >>       \* "bos://"
HTTPS == << "https:", SLASH, SLASH >>    \* "https://"

\* str.startswith, str.endswith
StartsWith(s, p) == Len(s) >= Len(p) /\ SubSeq(s, 1, Len(p)) = p
EndsWith(s, p) == Len(s) >= Len(p) /\ SubSeq(s, Len(s) - Len(p) + 1, Len(s)) = p

\* str.replace: every occurrence, left to right, without overlap
RECURSIVE Replace(_, _, _)
Replace(s, old, new) ==
    IF s = <<>> THEN <<>>
    ELSE IF StartsWith(s, old)
         THEN new \o Replace(SubSeq(s, Len(old) + 1, Len(s)), old, new)
         ELSE << Head(s) >> \o Replace(Tail(s), old, new)

\* str.split on a one-token separator
RECURSIVE Split(_, _)
Split(s, sep) ==
    IF \A i \in 1..Len(s) : s[i] # sep THEN << s >>
    ELSE LET i == SetMin({ j \in 1..Len(s) : s[j] = sep })
         IN  << SubSeq(s, 1, i - 1) >> \o Split(SubSeq(s, i + 1, Len(s)), sep)

\* sep.join(parts)
RECURSIVE Join(_, _)
Join(sep, parts) ==
    IF parts = <<>> THEN <<>>
    ELSE IF Len(parts) = 1 THEN parts[1]
    ELSE parts[1] \o << sep >> \o Join(sep, Tail(parts))

\* str.rstrip of one character
RECURSIVE RStrip(_, _)
RStrip(s, ch) ==
    IF s # <<>> /\ s[Len(s)] = ch THEN RStrip(SubSeq(s, 1, Len(s) - 1), ch) ELSE s

\* BosUploader.upload: the directory URI made of the URL the upload returned
DirectoryUri(remote_url) ==
    IF StartsWith(remote_url, HTTPS)
    THEN LET parts == Split(remote_url, SLASH)
         IN  IF Len(parts) >= 4
             THEN LET bucket_name == Split(parts[3], DOT)[1]
                      path_parts  == SubSeq(parts, 4, Len(parts))
                      dir_path    == Join(SLASH, SubSeq(path_parts, 1, Len(path_parts) - 1))
                  IN  BOS1 \o bucket_name \o << SLASH >> \o dir_path
             ELSE remote_url
    ELSE IF StartsWith(remote_url, BOS1)
    THEN LET parts == Split(remote_url, SLASH)
         IN  IF Len(parts) > 3 THEN Join(SLASH, SubSeq(parts, 1, Len(parts) - 1))
             ELSE remote_url
    ELSE remote_url

\* URLs an upload returns: an https URL, a bos:/ URL of a file, a bos:// URL
\* of a file, a bucket alone
RemoteUrls ==
    { HTTPS \o << "b", DOT, "host", SLASH, "dir", SLASH, "f" >>,
      BOS1 \o << "b", SLASH, "dir", SLASH, "f" >>,
      BOS2 \o << "b", SLASH, "dir", SLASH, "f" >>,
      BOS1 \o << "b" >> }

\* URIs a caller of submit_job passes: single, double and triple slash, a
\* trailing slash, another scheme, the empty string
CallerUris ==
    { BOS1 \o << "b", SLASH, "k" >>,
      BOS2 \o << "b", SLASH, "k" >>,
      BOS2 \o << SLASH, "b", SLASH, "k" >>,
      BOS1 \o << "b", SLASH, "k", SLASH >>,
      << "s3:", SLASH, "b", SLASH, "k" >>,
      <<>> }

SubmitUris == CallerUris \cup { DirectoryUri(u) : u \in RemoteUrls }

\* lines 96-97: bos:// is rewritten to bos:/
Converted(uri) == IF StartsWith(uri, BOS2) THEN Replace(uri, BOS2, BOS1) ELSE uri

\* lines 105-107 on the converted URI
BucketOf(uri) == Split(Replace(uri, BOS1, <<>>), SLASH)[1]
KeyOf(uri) == Join(SLASH, Tail(Split(Replace(uri, BOS1, <<>>), SLASH)))

\* lines 127-134: the URI of the first request, input and output alike
FirstUri(uri) == IF EndsWith(uri, << SLASH >>) THEN RStrip(uri, SLASH) ELSE uri

\* lines 177-181
alternative_formats(b, k) ==
    << BOS1 \o b \o << SLASH >> \o k,
       BOS2 \o b \o << SLASH >> \o k,
       b \o << SLASH >> \o k >>

\* a handler that retries after every failure
RetryAfterAny(error) == TRUE

\* if "InvalidBosUri" in str(e)
RetryWanted(error) == error = "InvalidBosUri"

\* what the creation service may raise
CreateErrors == { "InvalidBosUri", "Error" }

Request(uri) == [ input_bos_uri |-> uri, output_bos_uri |-> uri ]
Created(t) == [ kind |-> "ok", task_id |-> t ]
Refused(e) == [ kind |-> e, task_id |-> 0 ]

InitSubmit ==
    /\ ProcessorIdle
    /\ WaitIdle
    /\ ListIdle
    /\ CliIdle
    /\ SignIdle
    /\ bos_uri \in SubmitUris
    /\ HAS_QIANFAN \in BOOLEAN
    /\ params_ok \in BOOLEAN
    /\ bucket = <<>>
    /\ key = <<>>
    /\ sent = <<>>
    /\ answers = <<>>
    /\ spc = "idle"
    /\ alt_index = 0
    /\ submitResult = [ ok |-> FALSE, task_id |-> 0 ]
    /\ submitRaised = ""

\* lines 92-134: the checks and conversions before the try block
SubmitStart ==
    /\ spc = "idle"
    /\ IF ~HAS_QIANFAN
       THEN /\ submitRaised' = "ImportError"
            /\ spc' = "done"
            /\ UNCHANGED << bos_uri, bucket, key >>
       ELSE IF ~StartsWith(Converted(bos_uri), BOS1)
       THEN /\ submitRaised' = "ValueError"
            /\ spc' = "done"
            /\ bos_uri' = Converted(bos_uri)
            /\ UNCHANGED << bucket, key >>
       ELSE /\ bucket' = BucketOf(Converted(bos_uri))
            /\ key' = KeyOf(Converted(bos_uri))
            /\ IF ~params_ok
               THEN /\ submitRaised' = "ValueError"
                    /\ spc' = "done"
                    /\ bos_uri' = Converted(bos_uri)
               ELSE /\ bos_uri' = FirstUri(Converted(bos_uri))
                    /\ spc' = "first"
                    /\ UNCHANGED submitRaised
    /\ UNCHANGED << notSubmitVars, HAS_QIANFAN, params_ok, sent, answers,
                    alt_index, submitResult >>

\* lines 157-168: the first creation request succeeds
FirstCreated(t) ==
    /\ spc = "first"
    /\ sent' = Append(sent, Request(bos_uri))
    /\ answers' = Append(answers, Created(t))
    /\ submitResult' = [ ok |-> TRUE, task_id |-> t ]
    /\ spc' = "done"
    /\ UNCHANGED << notSubmitVars, bos_uri, HAS_QIANFAN, params_ok, bucket, key,
                    alt_index, submitRaised >>

\* lines 169-203: the first creation request fails
FirstRefused(e) ==
    /\ spc = "first"
    /\ sent' = Append(sent, Request(bos_uri))
    /\ answers' = Append(answers, Refused(e))
    /\ IF RetryWanted(e)
       THEN /\ spc' = "retry"
            /\ alt_index' = 1
            /\ UNCHANGED submitResult
       ELSE /\ spc' = "done"
            /\ submitResult' = [ ok |-> FALSE, task_id |-> 0 ]
            /\ UNCHANGED alt_index
    /\ UNCHANGED << notSubmitVars, bos_uri, HAS_QIANFAN, params_ok, bucket, key,
                    submitRaised >>

\* lines 183-198: the request with the next alternative format succeeds
AlternativeCreated(t) ==
    /\ spc = "retry"
    /\ sent' = Append(sent, Request(alternative_formats(bucket, key)[alt_index]))
    /\ answers' = Append(answers, Created(t))
    /\ submitResult' = [ ok |-> TRUE, task_id |-> t ]
    /\ spc' = "done"
    /\ UNCHANGED << notSubmitVars, bos_uri, HAS_QIANFAN, params_ok, bucket, key,
                    alt_index, submitRaised >>

\* lines 199-203: it fails; the next format is tried, or (False, "") returned
AlternativeRefused(e) ==
    /\ spc = "retry"
    /\ sent' = Append(sent, Request(alternative_formats(bucket, key)[alt_index]))
    /\ answers' = Append(answers, Refused(e))
    /\ IF alt_index < Len(alternative_formats(bucket, key))
       THEN /\ alt_index' = alt_index + 1
            /\ UNCHANGED << spc, submitResult >>
       ELSE /\ spc' = "done"
            /\ submitResult' = [ ok |-> FALSE, task_id |-> 0 ]
            /\ UNCHANGED alt_index
    /\ UNCHANGED << notSubmitVars, bos_uri, HAS_QIANFAN, params_ok, bucket, key,
                    submitRaised >>

NextSubmit ==
    \/ SubmitStart
    \/ \E t \in Tasks : FirstCreated(t)
    \/ \E e \in CreateErrors : FirstRefused(e)
    \/ \E t \in Tasks : AlternativeCreated(t)
    \/ \E e \in CreateErrors : AlternativeRefused(e)

SpecSubmit == InitSubmit /\ [][NextSubmit]_vars

\* ------------------------------------------------------- command handlers
InitCli ==
    /\ ProcessorIdle
    /\ WaitIdle
    /\ ListIdle
    /\ SubmitIdle
    /\ SignIdle
    /\ command \in { "submit", "status", "list" }
    /\ IF command = "submit"
       THEN /\ precheck \in { "ok", "missing", "declined" }
            /\ split_path \in BOOLEAN
            /\ n_chunks \in IF split_path THEN 0..MaxChunks ELSE {0}
            /\ wait \in BOOLEAN
       ELSE /\ precheck = "ok"
            /\ split_path = FALSE
            /\ n_chunks = 0
            /\ wait = FALSE
    /\ CliStart

\* a call of the client layer with its outcome; value is the task ID a
\* successful submit_job returned, 0 for every other call
CallReturning(name, chunk, ok, value) ==
    [ call |-> name, chunk |-> chunk, ok |-> ok, value |-> value ]

Call(name, chunk, ok) == CallReturning(name, chunk, ok, 0)

\* what the client layer prints on stderr when a call of its own fails
ClientDiagnostic(name) ==
    IF name = "submit_job" THEN << "Job submission failed" >>
    ELSE IF name \in { "check_task_status", "list_tasks" } THEN << "API request failed" >>
    ELSE <<>>

\* handle_submit up to the choice of path, lines 84-112
SubmitChecks ==
    /\ cpc = "idle"
    /\ command = "submit"
    /\ IF precheck = "missing"
       THEN /\ stderr' = Append(stderr, "Error: File not found")
            /\ exit_status' = 1
            /\ cpc' = "done"
       ELSE IF precheck = "declined"
       THEN /\ stderr' = Append(stderr, "Warning: File contains invalid JSON lines which may cause issues")
            /\ exit_status' = 1
            /\ cpc' = "done"
       ELSE /\ cpc' = IF split_path THEN "chunks" ELSE "whole"
            /\ UNCHANGED << stderr, exit_status >>
    /\ UNCHANGED << notCliVars, command, precheck, split_path, n_chunks, wait,
                    chunk_i, cli_task_ids, calls, stdout >>

\* one pass of the chunk loop, lines 124-130: the upload fails
ChunkUploadFails ==
    /\ cpc = "chunks"
    /\ chunk_i < n_chunks
    /\ chunk_i' = chunk_i + 1
    /\ calls' = Append(calls, Call("upload_file", chunk_i + 1, FALSE))
    /\ stderr' = Append(stderr, "Failed to upload file")
    /\ UNCHANGED << notCliVars, command, precheck, split_path, n_chunks, wait,
                    cli_task_ids, stdout, exit_status, cpc >>

\* lines 124-147: the upload succeeds, submit_job returns (False, "")
ChunkSubmitFails ==
    /\ cpc = "chunks"
    /\ chunk_i < n_chunks
    /\ chunk_i' = chunk_i + 1
    /\ calls' = calls \o << Call("upload_file", chunk_i + 1, TRUE),
                              Call("submit_job", chunk_i + 1, FALSE) >>
    /\ stderr' = stderr \o ClientDiagnostic("submit_job")
                     \o << "Failed to submit job for file" >>
    /\ UNCHANGED << notCliVars, command, precheck, split_path, n_chunks, wait,
                    cli_task_ids, stdout, exit_status, cpc >>

\* lines 124-150: upload and submission succeed
ChunkSubmitted(task_id) ==
    /\ cpc = "chunks"
    /\ chunk_i < n_chunks
    /\ chunk_i' = chunk_i + 1
    /\ calls' = calls \o << Call("upload_file", chunk_i + 1, TRUE),
                              CallReturning("submit_job", chunk_i + 1, TRUE, task_id) >>
    /\ cli_task_ids' = Append(cli_task_ids, task_id)
    /\ UNCHANGED << notCliVars, command, precheck, split_path, n_chunks, wait,
                    stderr, stdout, exit_status, cpc >>

\* lines 152-156 and 192: after the loop
ChunksEnd ==
    /\ cpc = "chunks"
    /\ chunk_i = n_chunks
    /\ stdout' = "All chunks submitted"
    /\ IF wait /\ cli_task_ids # <<>>
       THEN /\ cpc' = "waiting"
            /\ UNCHANGED exit_status
       ELSE /\ cpc' = "done"
            /\ exit_status' = 0
    /\ UNCHANGED << notCliVars, command, precheck, split_path, n_chunks, wait,
                    chunk_i, cli_task_ids, calls, stderr >>

\* lines 162-168: the upload of the whole file fails
WholeUploadFails ==
    /\ cpc = "whole"
    /\ calls' = Append(calls, Call("upload_file", 0, FALSE))
    /\ stderr' = Append(stderr, "Failed to upload file")
    /\ exit_status' = 1
    /\ cpc' = "done"
    /\ UNCHANGED << notCliVars, command, precheck, split_path, n_chunks, wait,
                    chunk_i, cli_task_ids, stdout >>

\* lines 162-184: the upload succeeds, submit_job returns (False, "")
WholeSubmitFails ==
    /\ cpc = "whole"
    /\ calls' = calls \o << Call("upload_file", 0, TRUE), Call("submit_job", 0, FALSE) >>
    /\ stderr' = stderr \o ClientDiagnostic("submit_job") \o << "Failed to submit job" >>
    /\ exit_status' = 1
    /\ cpc' = "done"
    /\ UNCHANGED << notCliVars, command, precheck, split_path, n_chunks, wait,
                    chunk_i, cli_task_ids, stdout >>

\* lines 162-192: upload and submission succeed
WholeSubmitted(task_id) ==
    /\ cpc = "whole"
    /\ calls' = calls \o << Call("upload_file", 0, TRUE),
                              CallReturning("submit_job", 0, TRUE, task_id) >>
    /\ cli_task_ids' = << task_id >>
    /\ stdout' = "Job submitted with task ID"
    /\ IF wait
       THEN /\ cpc' = "waiting"
            /\ UNCHANGED exit_status
       ELSE /\ cpc' = "done"
            /\ exit_status' = 0
    /\ UNCHANGED << notCliVars, command, precheck, split_path, n_chunks, wait,
                    chunk_i, stderr >>

\* submit_job raises (see SubmitStart): nothing catches it, the interpreter
\* prints the traceback and exits with status 1
SubmitJobRaises ==
    /\ cpc \in { "chunks", "whole" }
    /\ cpc = "chunks" => chunk_i < n_chunks
    /\ calls' = calls \o
          << Call("upload_file", IF cpc = "chunks" THEN chunk_i + 1 ELSE 0, TRUE),
             Call("submit_job", IF cpc = "chunks" THEN chunk_i + 1 ELSE 0, FALSE) >>
    /\ stderr' = Append(stderr, "Traceback")
    /\ exit_status' = 1
    /\ cpc' = "done"
    /\ UNCHANGED << notCliVars, command, precheck, split_path, n_chunks, wait,
                    chunk_i, cli_task_ids, stdout >>

\* wait_for_jobs returns, completed or interrupted; handle_submit returns 0
WaitReturns ==
    /\ cpc = "waiting"
    /\ exit_status' = 0
    /\ cpc' = "done"
    /\ UNCHANGED << notCliVars, command, precheck, split_path, n_chunks, wait,
                    chunk_i, cli_task_ids, calls, stderr, stdout >>

\* handle_status, lines 202-222
StatusAnswered ==
    /\ cpc = "idle"
    /\ command = "status"
    /\ calls' = Append(calls, Call("check_task_status", 0, TRUE))
    /\ stdout' = "Progress"
    /\ exit_status' = 0
    /\ cpc' = "done"
    /\ UNCHANGED << notCliVars, command, precheck, split_path, n_chunks, wait,
                    chunk_i, cli_task_ids, stderr >>

\* handle_status, lines 202-206: check_task_status returned {}
StatusFails ==
    /\ cpc = "idle"
    /\ command = "status"
    /\ calls' = Append(calls, Call("check_task_status", 0, FALSE))
    /\ stderr' = stderr \o ClientDiagnostic("check_task_status")
                     \o << "Failed to get task status" >>
    /\ exit_status' = 1
    /\ cpc' = "done"
    /\ UNCHANGED << notCliVars, command, precheck, split_path, n_chunks, wait,
                    chunk_i, cli_task_ids, stdout >>

\* handle_list, lines 242-274: list_tasks returned tasks; ok tells whether
\* every page request was answered
ListShown(ok) ==
    /\ cpc = "idle"
    /\ command = "list"
    /\ calls' = Append(calls, Call("list_tasks", 0, ok))
    /\ stderr' = IF ok THEN stderr ELSE stderr \o ClientDiagnostic("list_tasks")
    /\ stdout' = "Found tasks"
    /\ exit_status' = 0
    /\ cpc' = "done"
    /\ UNCHANGED << notCliVars, command, precheck, split_path, n_chunks, wait,
                    chunk_i, cli_task_ids >>

\* handle_list, lines 242-246: list_tasks returned [], after a failed
\* request or from a service with no task
ListNothing(ok) ==
    /\ cpc = "idle"
    /\ command = "list"
    /\ calls' = Append(calls, Call("list_tasks", 0, ok))
    /\ stderr' = IF ok THEN stderr ELSE stderr \o ClientDiagnostic("list_tasks")
    /\ stdout' = "No tasks found or failed to fetch tasks"
    /\ exit_status' = 0
    /\ cpc' = "done"
    /\ UNCHANGED << notCliVars, command, precheck, split_path, n_chunks, wait,
                    chunk_i, cli_task_ids >>

NextCli ==
    \/ SubmitChecks
    \/ ChunkUploadFails
    \/ ChunkSubmitFails
    \/ \E task_id \in Tasks : ChunkSubmitted(task_id)
    \/ ChunksEnd
    \/ WholeUploadFails
    \/ WholeSubmitFails
    \/ \E task_id \in Tasks : WholeSubmitted(task_id)
    \/ SubmitJobRaises
    \/ WaitReturns
    \/ StatusAnswered
    \/ StatusFails
    \/ \E ok \in BOOLEAN : ListShown(ok)
    \/ \E ok \in BOOLEAN : ListNothing(ok)

SpecCli == InitCli /\ [][NextCli]_vars

\* ------------------------------------------------------ the signing client
ak == "AK"
sk == "SK"
host == "qianfan.baidubce.com"
expiration_seconds == 1800
x_bce_date == "2026-01-01T00:00:00Z"
api_uri == "/v2/batchinference"

\* urllib.parse.quote(s) on the path in use: "/" is safe, nothing to encode
QuotePath(s) ==
    CASE s = "/v2/batch inference" -> "/v2/batch%20inference"
      [] OTHER -> s

\* str.lower on the header names in use
Lower(k) ==
    CASE k = "Host" -> "host"
      [] k = "X-Trace" -> "x-trace"
      [] OTHER -> k

\* urllib.parse.quote(s, safe="") on the names and values in use
Quote(s) ==
    CASE s = "application/json;charset=utf-8" -> "application%2Fjson%3Bcharset%3Dutf-8"
      [] s = "2026-01-01T00:00:00Z" -> "2026-01-01T00%3A00%3A00Z"
      [] s = "a b" -> "a%20b"
      [] OTHER -> s

\* dict.update
Update(d, e) ==
    [ k \in DOMAIN d \cup DOMAIN e |-> IF k \in DOMAIN e THEN e[k] ELSE d[k] ]

\* the line "name:value" of one header
CanonicalLine(k, v) == << Quote(Lower(k)), Quote(v) >>

\* _generate_canonical_headers: the sorted lines of all headers given, as
\* the number of times each line occurs
CanonicalHeaders(h) ==
    LET lines == { CanonicalLine(k, h[k]) : k \in DOMAIN h }
    IN  [ l \in lines |-> Cardinality({ k \in DOMAIN h : CanonicalLine(k, h[k]) = l }) ]

\* hmac.new(key, msg, sha256).hexdigest(): one digest per key and message
Hmac(k, msg) == << "hmac-sha256", k, msg >>

\* the literal "content-type;host;x-bce-date"
signed_headers == << "content-type", "host", "x-bce-date" >>

\* the headers a caller may add, and their values
ExtraNames == { "X-Trace", "host", "content-type" }
ExtraValues == { "a b", "other" }

ExtraHeaders ==
    UNION { [ S -> ExtraValues ] : S \in SUBSET ExtraNames }

InitSign ==
    /\ ProcessorIdle
    /\ WaitIdle
    /\ ListIdle
    /\ SubmitIdle
    /\ CliIdle
    /\ method \in { "POST", "GET" }
    /\ query \in { "", "Action=DescribeBatchInferenceTasks" }
    /\ extra_headers \in ExtraHeaders
    /\ signatures = <<>>
    /\ sign_stdout = <<>>
    /\ SignStart

\* lines 87-98
BuildHeaders ==
    /\ apc = "idle"
    /\ LET base == [ k \in { "Host", "content-type", "x-bce-date" } |->
                        IF k = "Host" THEN host
                        ELSE IF k = "content-type" THEN "application/json;charset=utf-8"
                        ELSE x_bce_date ]
       IN  headers' = IF DOMAIN extra_headers # {} THEN Update(base, extra_headers)
                      ELSE base
    /\ apc' = "headers"
    /\ UNCHANGED << notSignVars, method, query, extra_headers, canonical_request,
                    authorization, posted, signatures, sign_stdout >>

\* lines 53-57: the canonical request of _generate_signature
CanonicalRequest(m, u, q, h) ==
    [ method |-> m, uri |-> QuotePath(u), query |-> q,
      canonical_headers |-> CanonicalHeaders(h) ]

\* lines 50-69: the value _generate_signature returns,
\* bce-auth-v1/{ak}/{x_bce_date}/{expiration_seconds}/{signed_headers}/{digest}
GenerateSignature(m, u, q, h, sh, date) ==
    LET auth_string_prefix == << "bce-auth-v1", ak, date, expiration_seconds >>
        signing_key == Hmac(sk, auth_string_prefix)
    IN  [ version |-> "bce-auth-v1", ak |-> ak, x_bce_date |-> date,
          expiration_seconds |-> expiration_seconds, signed_headers |-> sh,
          digest |-> Hmac(signing_key, CanonicalRequest(m, u, q, h)) ]

\* line 67: _generate_signature prints the string it returns
SignaturePrinted(a) == << [ what |-> "authorization", value |-> a ] >>

\* lines 101-106 with _generate_signature, lines 50-69
Sign ==
    /\ apc = "headers"
    /\ LET a == GenerateSignature(method, api_uri, query, headers, signed_headers,
                                  x_bce_date)
       IN  /\ canonical_request' = CanonicalRequest(method, api_uri, query, headers)
           /\ authorization' = a
           /\ signatures' = Append(signatures,
                 [ method |-> method, uri |-> api_uri, query |-> query,
                   headers |-> headers, signed_headers |-> signed_headers,
                   x_bce_date |-> x_bce_date, result |-> a ])
           /\ sign_stdout' = sign_stdout \o SignaturePrinted(a)
    /\ apc' = "signed"
    /\ UNCHANGED << notSignVars, method, query, extra_headers, headers, posted >>

\* lines 104-119: the Authorization header is added, the URL and the headers
\* are printed and the request is posted
Post ==
    /\ apc = "signed"
    /\ posted' = Update(headers, [ k \in { "Authorization" } |-> "bce-auth-v1" ])
    /\ sign_stdout' = sign_stdout \o
          << [ what |-> "url", value |-> << "https://", host, api_uri >> ],
             [ what |-> "headers", value |-> posted' ] >>
    /\ apc' = "sent"
    /\ UNCHANGED << notSignVars, method, query, extra_headers, headers,
                    canonical_request, authorization, signatures >>

\* the client is used for a further request, with headers of its own
NextRequest(e) ==
    /\ apc = "sent"
    /\ Len(signatures) < MaxRequests
    /\ extra_headers' = e
    /\ headers' = NoHeaders
    /\ canonical_request' = NoCanonicalRequest
    /\ authorization' = NoAuthorization
    /\ posted' = NoHeaders
    /\ apc' = "idle"
    /\ UNCHANGED << notSignVars, method, query, signatures, sign_stdout >>

NextSign ==
    \/ BuildHeaders
    \/ Sign
    \/ Post
    \/ \E e \in ExtraHeaders : NextRequest(e)

SpecSign == InitSign /\ [][NextSign]_vars

\* ---------------------------------------------------------- wait_for_jobs
InitWait ==
    /\ ProcessorIdle
    /\ ListIdle
    /\ SubmitIdle
    /\ CliIdle
    /\ SignIdle
    /\ task_ids \in SUBSET Tasks
    /\ runStatus \in [ Tasks -> ReportedStatuses ]
    /\ pending_tasks = {}
    /\ completed_tasks = {}
    /\ sweep = {}
    /\ seen = [ t \in Tasks |-> "" ]
    /\ wpc = "idle"
    /\ stop_message = NoMessage

\* pending_tasks = set(task_ids); the while loop is entered if it is non-empty
WaitStart ==
    /\ wpc = "idle"
    /\ pending_tasks' = task_ids
    /\ completed_tasks' = {}
    /\ sweep' = task_ids
    /\ wpc' = IF task_ids = {} THEN "done" ELSE "sweep"
    /\ UNCHANGED << notWaitVars, task_ids, runStatus, seen, stop_message >>

\* one iteration of the for loop: check_task_status answered with the
\* service's run status
PollAnswered(task_id) ==
    /\ wpc = "sweep"
    /\ task_id \in sweep
    /\ sweep' = sweep \ {task_id}
    /\ seen' = [ seen EXCEPT ![task_id] = runStatus[task_id] ]
    /\ IF runStatus[task_id] \in StopStatuses
       THEN /\ pending_tasks' = pending_tasks \ {task_id}
            /\ completed_tasks' = completed_tasks \cup {task_id}
       ELSE UNCHANGED << pending_tasks, completed_tasks >>
    /\ UNCHANGED << notWaitVars, task_ids, runStatus, wpc, stop_message >>

\* one iteration of the for loop: check_task_status returned {} (the request
\* failed), the task is skipped
PollFailed(task_id) ==
    /\ wpc = "sweep"
    /\ task_id \in sweep
    /\ sweep' = sweep \ {task_id}
    /\ UNCHANGED << notWaitVars, task_ids, pending_tasks, completed_tasks,
                    runStatus, seen, wpc, stop_message >>

\* the for loop is over: sleep if tasks are pending, else leave the while loop
SweepEnd ==
    /\ wpc = "sweep"
    /\ sweep = {}
    /\ wpc' = IF pending_tasks # {} THEN "sleep" ELSE "done"
    /\ UNCHANGED << notWaitVars, task_ids, pending_tasks, completed_tasks,
                    sweep, runStatus, seen, stop_message >>

\* time.sleep(30) returns: the while condition holds, the next for loop starts
Wake ==
    /\ wpc = "sleep"
    /\ wpc' = "sweep"
    /\ sweep' = pending_tasks
    /\ UNCHANGED << notWaitVars, task_ids, pending_tasks, completed_tasks,
                    runStatus, seen, stop_message >>

\* KeyboardInterrupt inside the try block
Interrupt ==
    /\ wpc \in { "sweep", "sleep" }
    /\ wpc' = "stopped"
    /\ stop_message' = [ text |-> "Stopped waiting for jobs", tasks |-> {} ]
    /\ UNCHANGED << notWaitVars, task_ids, pending_tasks, completed_tasks,
                    sweep, runStatus, seen >>

\* the service finishes a running task
TaskEnds(task_id, status) ==
    /\ runStatus[task_id] = "Running"
    /\ runStatus' = [ runStatus EXCEPT ![task_id] = status ]
    /\ UNCHANGED << notWaitVars, task_ids, pending_tasks, completed_tasks,
                    sweep, seen, wpc, stop_message >>

NextWait ==
    \/ WaitStart
    \/ \E task_id \in Tasks : PollAnswered(task_id)
    \/ \E task_id \in Tasks : PollFailed(task_id)
    \/ SweepEnd
    \/ Wake
    \/ Interrupt
    \/ \E task_id \in Tasks, status \in ReportedStatuses \ {"Running"} :
           TaskEnds(task_id, status)

SpecWait == InitWait /\ [][NextWait]_vars

\* ---------------------------------------------------- reading files back
\* a line without its line terminator
Chomp(line) ==
    IF line # <<>> /\ line[Len(line)] = NL THEN SubSeq(line, 1, Len(line) - 1) ELSE line

\* the lines of a file, without their terminators
FileLines(bytes) == [ i \in 1..Len(ReadLines(bytes)) |-> Chomp(ReadLines(bytes)[i]) ]

IsBlank(line) == Strip(line) = <<>>

\* the lines of a file that are not blank, trimmed, in file order
RetainedLines(bytes) ==
    LET ls == ReadLines(bytes)
    IN  SelectSeq([ i \in 1..Len(ls) |-> Strip(ls[i]) ], LAMBDA l : l # <<>>)

BlankCount(bytes) ==
    Cardinality({ i \in 1..Len(ReadLines(bytes)) : IsBlank(ReadLines(bytes)[i]) })

RECURSIVE Flatten(_)
Flatten(ss) == IF ss = <<>> THEN <<>> ELSE Head(ss) \o Flatten(Tail(ss))

\* the files split returned, in the order of the returned list
ChunkBytes(paths) == [ i \in 1..Len(paths) |-> fs[paths[i]] ]

\* number of lines in the k-th returned chunk
ChunkLineCount(paths, k) == Len(ReadLines(fs[paths[k]]))

CeilDiv(a, b) == (a + b - 1) \div b

SplitReturned == "split" \in returned
NeedsReturned == "needs_splitting" \in returned
ValidateReturned == "validate" \in returned

\* ------------------------------------------------------------------ claims

\* C1: the lines of the chunk files, read chunk by chunk in the order of the
\* returned list, are the input's non-blank lines (each in its trimmed form),
\* in input order: none dropped, none duplicated, none reordered, and no
\* chunk holds a blank line.
C1_ChunksHoldRetainedLines ==
    SplitReturned =>
        LET perChunk == [ i \in 1..Len(splitResult) |-> FileLines(fs[splitResult[i]]) ]
        IN  /\ Flatten(perChunk) = RetainedLines(input)
            /\ \A i \in 1..Len(perChunk) :
                  \A j \in 1..Len(perChunk[i]) : ~IsBlank(perChunk[i][j])

\* C1 witness: split returned two or more chunks for a file that has a blank
\* line and a line with leading whitespace.
C1_Witness ==
    /\ SplitReturned
    /\ Len(splitResult) >= 2
    /\ BlankCount(input) >= 1
    /\ \E i \in 1..Len(ReadLines(input)) :
          Chomp(ReadLines(input)[i]) = <<SP, "1">>

\* C2: concatenating the bytes of the chunk files in index order and removing
\* blank lines gives the input's non-blank lines, in order.
C2_ConcatenationRoundTrip ==
    SplitReturned =>
        RetainedLines(Flatten(ChunkBytes(splitResult))) = RetainedLines(input)

\* split has computed its plan (the code's chunk count is never 0)
PlanComputed == chunk_count # 0

\* C3: the chunk count split computes is
\* max(ceil(size / maxBytes), ceil(lines / maxLines)); stated here for the
\* files that have at least one byte.
C3_ChunkCountIsCeiling ==
    (PlanComputed /\ input # <<>>) =>
        chunk_count = IntMax(CeilDiv(Len(input), MAX_SIZE_BYTES),
                             CeilDiv(Len(ReadLines(input)), MAX_LINES))

\* C4: every returned chunk but the last holds ceil(total_lines / chunk_count)
\* lines, and the last one holds between 1 and that many.
C4_ChunksHoldCeilingLines ==
    SplitReturned =>
        LET full == CeilDiv(Len(ReadLines(input)), chunk_count)
            n    == Len(splitResult)
        IN  /\ \A k \in 1..(n - 1) : ChunkLineCount(splitResult, k) = full
            /\ n >= 1 => /\ ChunkLineCount(splitResult, n) >= 1
                          /\ ChunkLineCount(splitResult, n) <= full

\* C5: no chunk file on disk holds more than MAX_LINES lines.
C5_ChunkWithinMaxLines ==
    \A p \in DOMAIN fs : Len(ReadLines(fs[p])) <= MAX_LINES

\* C5 witness: split returned two or more chunks and one of them holds
\* exactly MAX_LINES lines, with MAX_LINES above 1.
C5_Witness ==
    /\ SplitReturned
    /\ Len(splitResult) >= 2
    /\ MAX_LINES >= 2
    /\ \E k \in 1..Len(splitResult) : ChunkLineCount(splitResult, k) = MAX_LINES

\* C6: no chunk file on disk is longer than MAX_SIZE_BYTES bytes; stated
\* here for the files each of whose lines fits in MAX_SIZE_BYTES on its own,
\* so that chunks within the limit exist.
EveryLineFits ==
    \A i \in 1..Len(RetainedLines(input)) :
        Len(RetainedLines(input)[i]) <= MAX_SIZE_BYTES

C6_ChunkWithinMaxBytes ==
    EveryLineFits => \A p \in DOMAIN fs : Len(fs[p]) <= MAX_SIZE_BYTES

\* C7 as stated: split returns at least one chunk for any non-empty file.
C7_NonEmptyFileGivesChunk ==
    (SplitReturned /\ input # <<>>) => Len(splitResult) >= 1

\* C7 amended: split returns at least one chunk for any file that has a line
\* which is non-empty after trimming.
C7_NonBlankLineGivesChunk ==
    (SplitReturned /\ RetainedLines(input) # <<>>) => Len(splitResult) >= 1

\* C7 witness: split returned exactly one chunk, written by the flush after
\* the loop, for a file with a non-blank line.
C7_Witness ==
    /\ SplitReturned
    /\ RetainedLines(input) # <<>>
    /\ Len(splitResult) = 1
    /\ current_chunk # <<>>

\* C8: split returns no more files than the chunk count it computed.
C8_FilesWithinChunkCount ==
    SplitReturned => Len(splitResult) <= chunk_count

\* C8 witness: split returned as many files as the chunk count, two or more.
C8_Witness ==
    /\ SplitReturned
    /\ chunk_count >= 2
    /\ Len(splitResult) = chunk_count

\* C9: the scenario's file has more than MAX_LINES and fewer than
\* 2 * MAX_LINES lines and is no longer than MAX_SIZE_BYTES bytes.
C9_Scenario ==
    /\ Len(ReadLines(input)) > MAX_LINES
    /\ Len(ReadLines(input)) < 2 * MAX_LINES
    /\ Len(input) <= MAX_SIZE_BYTES

RECURSIVE SumLineCounts(_, _)
SumLineCounts(paths, k) ==
    IF k = 0 THEN 0 ELSE ChunkLineCount(paths, k) + SumLineCounts(paths, k - 1)

\* needs_splitting answered true and its reason holds the line count
C9_NeedsPart ==
    NeedsReturned =>
        /\ needsResult[1] = TRUE
        /\ needsResult[2].text = "Line count exceeds limit"
        /\ needsResult[2].value = Len(ReadLines(input))

\* the chunks' line counts add up to the line count minus the blank lines
C9_SumPart ==
    SplitReturned =>
        SumLineCounts(splitResult, Len(splitResult))
            = Len(ReadLines(input)) - BlankCount(input)

\* C9 as stated: in the scenario needs_splitting returns true with a reason
\* holding the line count, and split returns exactly 2 chunk files whose line
\* counts add up to the line count minus the blank lines.
C9_ScenarioGivesTwoChunks ==
    C9_Scenario =>
        /\ C9_NeedsPart
        /\ C9_SumPart
        /\ SplitReturned => Len(splitResult) = 2

\* C9 amended: in the scenario needs_splitting returns true with a reason
\* holding the line count L, and split returns at most 2 chunk files, exactly
\* 2 when more than L div 2 + 1 lines are non-blank, whose line counts add up
\* to L minus the blank lines.
C9_ScenarioGivesAtMostTwoChunks ==
    C9_Scenario =>
        /\ C9_NeedsPart
        /\ C9_SumPart
        /\ SplitReturned =>
              LET L == Len(ReadLines(input))
                  N == L - BlankCount(input)
              IN  /\ Len(splitResult) <= 2
                  /\ N > L \div 2 + 1 => Len(splitResult) = 2

\* C9 witness: the scenario, both calls made, two chunks returned.
C9_Witness ==
    /\ C9_Scenario
    /\ NeedsReturned
    /\ SplitReturned
    /\ Len(splitResult) = 2

\* C10: validate reads every line: while it runs each line read so far was
\* counted once, and what it returns is (number of lines that are non-empty
\* after trimming and parse as JSON, number of all other lines), the two
\* adding up to the number of lines of the file.
ValidLines(bytes) ==
    { i \in 1..Len(ReadLines(bytes)) :
        ~IsBlank(ReadLines(bytes)[i]) /\ JsonLoads(Strip(ReadLines(bytes)[i])) }

C10_ValidateCountsEveryLine ==
    /\ pc = "validate" => valid_count + invalid_count = line_number
    /\ ValidateReturned =>
          /\ validateResult[1] = Cardinality(ValidLines(input))
          /\ validateResult[2] = Len(ReadLines(input)) - Cardinality(ValidLines(input))
          /\ validateResult[1] + validateResult[2] = Len(ReadLines(input))

\* C10 witness: validate returned for a file whose first line is malformed,
\* with a blank line and a valid line after it.
C10_Witness ==
    /\ ValidateReturned
    /\ Len(ReadLines(input)) = 3
    /\ Chomp(ReadLines(input)[1]) = <<"[">>
    /\ IsBlank(ReadLines(input)[2])
    /\ validateResult = <<1, 2>>

\* C11: needs_splitting answers true exactly when the file is longer than
\* MAX_SIZE_BYTES bytes or has more than MAX_LINES lines (a file at a limit
\* needs no splitting); the reason is the size reason whenever the size is
\* over its limit, the line-count reason when only the line count is, and
\* empty when the answer is false.
C11_NeedsSplittingIffOverLimit ==
    NeedsReturned =>
        LET sizeOver  == Len(input) > MAX_SIZE_BYTES
            linesOver == Len(ReadLines(input)) > MAX_LINES
        IN  /\ needsResult[1] = (sizeOver \/ linesOver)
            /\ sizeOver => needsResult[2].text = "File size (MB) exceeds limit (MB)"
            /\ (linesOver /\ ~sizeOver) => needsResult[2].text = "Line count exceeds limit"
            /\ ~(sizeOver \/ linesOver) => needsResult[2] = NoReason

\* C11 witness: needs_splitting answered false for a file that is exactly at
\* both limits.
C11_Witness ==
    /\ NeedsReturned
    /\ Len(input) = MAX_SIZE_BYTES
    /\ Len(ReadLines(input)) = MAX_LINES
    /\ needsResult[1] = FALSE

\* a file over both limits, for which the size reason is given
C11_BothOver ==
    /\ NeedsReturned
    /\ Len(input) > MAX_SIZE_BYTES
    /\ Len(ReadLines(input)) > MAX_LINES
    /\ needsResult[2].text = "File size (MB) exceeds limit (MB)"

\* C12: a task that has reported Done, Failed or Cancelled is no longer
\* pending, and the polling loop goes to sleep for another round only if some
\* task has not yet reported one of these statuses.
C12_FinalStatusEndsPolling ==
    /\ \A t \in pending_tasks : seen[t] \notin FinalRunStatuses
    /\ wpc = "sleep" => \E t \in task_ids : seen[t] \notin FinalRunStatuses

\* C13: when a keyboard interrupt has stopped the polling loop, the message
\* printed names every task that is still pending.
C13_InterruptReportsPending ==
    wpc = "stopped" => pending_tasks \subseteq stop_message.tasks

\* the interrupt is caught: the loop is left with the stop message printed
C13_InterruptCaught ==
    wpc = "stopped" => stop_message.text = "Stopped waiting for jobs"

\* the tasks received on the first k pages
RECURSIVE Received(_)
Received(k) == IF k = 0 THEN 0 ELSE Len(pages[k].task_list) + Received(k - 1)

\* C14: against a paged service holding at least limit tasks, list_tasks with
\* limit >= 1 and offset 0 sends exactly ceil(limit / page) page requests and
\* returns exactly limit tasks.
C14_PagedListingCounts ==
    ( /\ lpc = "done"
      /\ backend.kind = "paged"
      /\ limit >= 1
      /\ offset = 0
      /\ backend.total >= limit )
    => /\ Len(requests) = CeilDiv(limit, backend.page)
       /\ Len(listResult) = limit

\* C14 witness: limit 3 against pages of 2: two requests, four tasks received,
\* three returned.
C14_Witness ==
    /\ lpc = "done"
    /\ backend.kind = "paged"
    /\ backend.page = 2
    /\ backend.total >= 4
    /\ limit = 3
    /\ offset = 0
    /\ Len(requests) = 2
    /\ Received(2) = 4
    /\ Len(listResult) = 3

\* C15: the first page request carries no marker; every later request
\* carries the ID of the last task of the page before it, and is sent only if
\* that page was answered truncated and non-empty and the tasks received so
\* far were fewer than limit.
C15_MarkerProtocol ==
    /\ Len(requests) >= 1 => requests[1] = 0
    /\ \A k \in 2..Len(requests) :
          LET prev == pages[k - 1]
          IN  /\ prev.error = ""
              /\ prev.task_list # <<>>
              /\ prev.is_truncated
              /\ requests[k] = prev.task_list[Len(prev.task_list)]
              /\ Received(k - 1) < limit
    /\ Len(requests) <= Len(pages) + 1

\* C15 witness: a second request was sent with the last ID of a two-task
\* first page, and its answer, not truncated, ended the listing below limit.
C15_Witness ==
    /\ lpc = "done"
    /\ Len(requests) = 2
    /\ Len(pages[1].task_list) = 2
    /\ requests[2] = pages[1].task_list[2]
    /\ ~pages[2].is_truncated
    /\ pages[2].error = ""
    /\ Received(2) < limit

\* C16: one submit_job call issues at most 4 creation requests; a request
\* after the first is made only after an InvalidBosUri failure of the first
\* and failures of all requests since, and carries the next of the three
\* alternative formats bos:/b/k, bos://b/k, b/k; the call returns
\* (True, taskId) at the first success, (False, "") after four failures, and
\* (False, "") after exactly 1 request when the first failure is of another
\* kind.
C16_BoundedRetry ==
    /\ Len(sent) <= 4
    /\ Len(answers) = Len(sent)
    /\ \A i \in 2..Len(sent) :
          /\ answers[1].kind = "InvalidBosUri"
          /\ answers[i - 1].kind # "ok"
    /\ Len(sent) >= 2 => sent[2].input_bos_uri = BOS1 \o bucket \o << SLASH >> \o key
    /\ Len(sent) >= 3 => sent[3].input_bos_uri = BOS2 \o bucket \o << SLASH >> \o key
    /\ Len(sent) >= 4 => sent[4].input_bos_uri = bucket \o << SLASH >> \o key
    /\ (spc = "done" /\ submitRaised = "")
         => LET last == answers[Len(answers)]
            IN  /\ Len(sent) >= 1
                /\ last.kind = "ok" => submitResult = [ ok |-> TRUE, task_id |-> last.task_id ]
                /\ last.kind # "ok" =>
                      /\ submitResult = [ ok |-> FALSE, task_id |-> 0 ]
                      /\ Len(sent) = IF answers[1].kind = "InvalidBosUri" THEN 4 ELSE 1

\* C16 witness: the first request failed with InvalidBosUri, two alternatives
\* failed, the third succeeded and its task ID was returned.
C16_Witness ==
    /\ spc = "done"
    /\ Len(sent) = 4
    /\ answers[1].kind = "InvalidBosUri"
    /\ answers[4].kind = "ok"
    /\ submitResult = [ ok |-> TRUE, task_id |-> answers[4].task_id ]

\* a first failure of another kind ends the call after one request
C16_OtherFailure ==
    /\ spc = "done"
    /\ Len(sent) = 1
    /\ answers[1].kind = "Error"
    /\ submitResult = [ ok |-> FALSE, task_id |-> 0 ]

\* C17: submit_job raises no exception: whatever its input, the call ends by
\* returning a pair.
C17_SubmitNeverRaises ==
    submitRaised = ""

\* C19: every creation request carries input and output URIs of the
\* single-slash form bos:/..., none of the double-slash form bos://...
C19_SingleSlashOnly ==
    \A i \in 1..Len(sent) :
        /\ StartsWith(sent[i].input_bos_uri, BOS1)
        /\ ~StartsWith(sent[i].input_bos_uri, BOS2)
        /\ StartsWith(sent[i].output_bos_uri, BOS1)
        /\ ~StartsWith(sent[i].output_bos_uri, BOS2)

\* the same for the first request alone
C19_FirstRequestSingleSlash ==
    Len(sent) >= 1 =>
        /\ StartsWith(sent[1].input_bos_uri, BOS1)
        /\ ~StartsWith(sent[1].input_bos_uri, BOS2)

\* the remote calls of the command failed: the one the command depends on,
\* or, in the chunk loop, a call for every one of the chunks
RemoteCallsFailed ==
    IF command = "submit" /\ split_path
    THEN /\ n_chunks >= 1
         /\ chunk_i = n_chunks
         /\ \A c \in 1..n_chunks : \E i \in 1..Len(calls) :
                calls[i].chunk = c /\ ~calls[i].ok
    ELSE \E i \in 1..Len(calls) : ~calls[i].ok

\* a message about the failure was printed on stderr
DiagnosticPrinted == stderr # <<>>

\* C18: a command whose remote calls failed (upload or submission of the
\* whole file, or of every chunk; the status query; the listing request)
\* prints a diagnostic and returns a non-zero status.
C18_FailureGivesNonZeroStatus ==
    (cpc = "done" /\ RemoteCallsFailed)
        => DiagnosticPrinted /\ exit_status # 0

\* the same for the commands that keep to it: status, and submit of a whole
\* file
C18_WholeFileAndStatus ==
    (cpc = "done" /\ RemoteCallsFailed /\ command # "list" /\ ~split_path)
        => DiagnosticPrinted /\ exit_status # 0

\* the listing request failed and the list command returned 0
C18_ListFailureReturnsZero ==
    /\ cpc = "done"
    /\ command = "list"
    /\ RemoteCallsFailed
    /\ exit_status = 0

\* every chunk failed and the submit command returned 0
C18_AllChunksFailReturnsZero ==
    /\ cpc = "done"
    /\ command = "submit"
    /\ split_path
    /\ RemoteCallsFailed
    /\ cli_task_ids = <<>>
    /\ exit_status = 0

\* the header names that entered the canonical request
CanonicalNames == { l[1] : l \in DOMAIN canonical_request.canonical_headers }

\* the names in the signed-header list of the Authorization string
SignedNames ==
    { authorization.signed_headers[i] : i \in 1..Len(authorization.signed_headers) }

\* C20: in every request signed, the headers that entered the canonical
\* request are exactly host, content-type and x-bce-date, one line each, the
\* ones named in the signed-header list of the Authorization string.
C20_SignsExactlyThreeHeaders ==
    apc \in { "signed", "sent" } =>
        /\ SignedNames = { "content-type", "host", "x-bce-date" }
        /\ CanonicalNames = SignedNames
        /\ \A l \in DOMAIN canonical_request.canonical_headers :
              canonical_request.canonical_headers[l] = 1
        /\ Cardinality(DOMAIN canonical_request.canonical_headers) = 3

\* the same for the requests made without extra headers
C20_NoExtraHeaders ==
    (apc \in { "signed", "sent" } /\ DOMAIN extra_headers = {}) =>
        /\ CanonicalNames = SignedNames
        /\ Cardinality(DOMAIN canonical_request.canonical_headers) = 3

\* a request without extra headers was sent
C20_PlainRequestSent ==
    apc = "sent" /\ DOMAIN extra_headers = {}

\* the arguments of a _generate_signature call
SignArgs(c) == << c.method, c.uri, c.query, c.headers, c.signed_headers, c.x_bce_date >>

\* two header dicts with the same names that differ in the value of exactly
\* one header
OneValueChanged(h1, h2) ==
    /\ DOMAIN h1 = DOMAIN h2
    /\ Cardinality({ k \in DOMAIN h1 : h1[k] # h2[k] }) = 1

\* two calls with identical arguments returned the identical signature
C21_Deterministic ==
    \A i, j \in 1..Len(signatures) :
        SignArgs(signatures[i]) = SignArgs(signatures[j])
            => signatures[i].result = signatures[j].result

\* the signature has the six parts of
\* bce-auth-v1/{ak}/{x_bce_date}/{expiration_seconds}/{signed_headers}/{digest}
C21_SignatureForm ==
    \A i \in 1..Len(signatures) :
        LET r == signatures[i].result
        IN  /\ r.version = "bce-auth-v1"
            /\ r.ak = ak
            /\ r.x_bce_date = signatures[i].x_bce_date
            /\ r.expiration_seconds = expiration_seconds
            /\ r.signed_headers = signatures[i].signed_headers

\* two calls that differ in the value of one header returned different
\* signatures
C21_HeaderValueChangesSignature ==
    \A i, j \in 1..Len(signatures) :
        ( /\ signatures[i].method = signatures[j].method
          /\ signatures[i].query = signatures[j].query
          /\ OneValueChanged(signatures[i].headers, signatures[j].headers) )
            => signatures[i].result # signatures[j].result

\* C21: _generate_signature is deterministic (identical arguments give the
\* identical signature of the six-part form), a change of one header value
\* changes the signature, and the call has no side effect: it prints nothing.
C21_SignIsPure ==
    /\ C21_Deterministic
    /\ C21_SignatureForm
    /\ C21_HeaderValueChangesSignature
    /\ apc = "signed" => sign_stdout = <<>>

\* two calls were made with identical arguments
C21_SameArgumentsTwice ==
    /\ Len(signatures) = 2
    /\ SignArgs(signatures[1]) = SignArgs(signatures[2])

\* two calls were made whose headers differ in one value
C21_OneValueChangedTwice ==
    /\ Len(signatures) = 2
    /\ OneValueChanged(signatures[1].headers, signatures[2].headers)

\* C22: against a paged service holding at least offset + limit tasks,
\* list_tasks(limit, offset) with limit >= 1 skips the first offset tasks and
\* returns exactly limit tasks, the ones at positions offset .. offset+limit-1
\* of the listing (counted from 0).
C22_OffsetSkipsThenLimit ==
    ( /\ lpc = "done"
      /\ backend.kind = "paged"
      /\ limit >= 1
      /\ backend.total >= offset + limit )
    => listResult = [ i \in 1..limit |-> offset + i ]

\* what list_tasks returns instead: the offset is cut from the tasks already
\* collected up to limit
C22_OffsetCutsCollected ==
    ( /\ lpc = "done"
      /\ backend.kind = "paged"
      /\ limit >= 1
      /\ backend.total >= offset + limit )
    => listResult = [ i \in 1..IntMax(limit - offset, 0) |-> offset + i ]

\* a listing with an offset against a service with enough tasks
C22_OffsetListed ==
    /\ lpc = "done"
    /\ backend.kind = "paged"
    /\ limit = 2
    /\ offset = 1
    /\ backend.total >= 3

\* the calls made for chunk c, in the order they were made
ChunkCalls(c) == SelectSeq(calls, LAMBDA x : x.chunk = c)

\* the task IDs the successful submit_job calls returned, in call order
RECURSIVE SubmittedIds(_)
SubmittedIds(cs) ==
    IF cs = <<>> THEN <<>>
    ELSE LET x == cs[1]
         IN  (IF x.call = "submit_job" /\ x.ok THEN << x.value >> ELSE <<>>)
                 \o SubmittedIds(Tail(cs))

\* the split path of handle_submit was taken
SplitPathTaken == command = "submit" /\ precheck = "ok" /\ split_path

\* chunks are worked through in index order; every chunk reached has one
\* upload, followed by at most one submit_job, made only after the upload
\* succeeded; the task IDs kept are those of the successful submissions, in
\* chunk order
C23_OnePassPerChunk ==
    SplitPathTaken =>
        /\ \A k \in 1..(Len(calls) - 1) : calls[k].chunk <= calls[k + 1].chunk
        /\ \A k \in 1..Len(calls) : calls[k].chunk \in 1..chunk_i + 1
        /\ \A c \in 1..chunk_i :
              LET cc == ChunkCalls(c)
              IN  /\ Len(cc) \in 1..2
                  /\ cc[1].call = "upload_file"
                  /\ Len(cc) = 2 => cc[1].ok /\ cc[2].call = "submit_job"
        /\ cli_task_ids = SubmittedIds(calls)

\* the handler has ended: every chunk has been uploaded, whatever failed
\* before it
C23_FailureDoesNotStopLaterChunks ==
    ( SplitPathTaken /\ cpc = "done" ) =>
        \A c \in 1..n_chunks : ChunkCalls(c) # <<>>

\* C23: in the split path chunks are processed in index order with one
\* upload and at most one submit_job call per chunk, a job is submitted only
\* after its chunk's upload succeeded, a failed upload or submission does not
\* stop the processing of later chunks, and the reported task IDs are exactly
\* those of the chunks whose submission succeeded, in chunk order.
C23_ChunkLoop ==
    /\ C23_OnePassPerChunk
    /\ C23_FailureDoesNotStopLaterChunks

\* submit_job returned a failure for the first chunk and the second chunk was
\* submitted
C23_ReturnedFailureThenSubmitted ==
    /\ SplitPathTaken
    /\ cpc = "done"
    /\ n_chunks = 2
    /\ Len(ChunkCalls(1)) = 2
    /\ ~ChunkCalls(1)[2].ok
    /\ Len(cli_task_ids) = 1
    /\ stdout = "All chunks submitted"

\* needs_splitting answered false and split returned at most one file
C24_NoNeedGivesAtMostOneFile ==
    ( NeedsReturned /\ SplitReturned /\ needsResult[1] = FALSE )
        => Len(splitResult) <= 1

\* needs_splitting answered true and split returned two files or more
C24_NeedGivesTwoFiles ==
    ( NeedsReturned /\ SplitReturned /\ needsResult[1] = TRUE )
        => Len(splitResult) >= 2

\* C24: needs_splitting and split agree on an unchanged file: if
\* needs_splitting returns false then split returns at most one output file,
\* and if needs_splitting returns true then split returns at least two.
C24_NeedsSplittingAgreesWithSplit ==
    /\ C24_NoNeedGivesAtMostOneFile
    /\ C24_NeedGivesTwoFiles

\* the two agree on a file over the line limit whose lines are all non-blank
C24_AgreeOverLineLimit ==
    ( /\ NeedsReturned
      /\ SplitReturned
      /\ BlankCount(input) = 0
      /\ Len(ReadLines(input)) > MAX_LINES )
    => needsResult[1] = TRUE /\ Len(splitResult) >= 2

\* C25: list_tasks terminates for every service behaviour, a service that
\* always answers isTruncated true or always fails included: it sends at most
\* max(limit, 0) page requests, none when limit <= 0, a request is sent only
\* while fewer than limit have been sent, and until it has returned it always
\* has a next step.
C25_RequestsBoundedByLimit ==
    /\ Len(requests) <= IntMax(limit, 0)
    /\ limit <= 0 => requests = <<>>
    /\ lpc = "request" => Len(requests) < limit
    /\ lpc # "done" => ENABLED NextList

\* C25 witness: every answer was truncated and list_tasks returned after as
\* many requests as limit, two or more.
C25_Witness ==
    /\ lpc = "done"
    /\ limit >= 2
    /\ Len(requests) = limit
    /\ \A k \in 1..Len(pages) : pages[k].is_truncated /\ pages[k].error = ""

\* list_tasks returned without a request for a limit of 0 or less
C25_NoRequestForNoLimit ==
    /\ lpc = "done"
    /\ limit <= 0
    /\ requests = <<>>

\* the first request failed and list_tasks returned after it
C25_FailingServiceEndsListing ==
    /\ lpc = "done"
    /\ Len(requests) = 1
    /\ pages[1].error # ""

====
